---- MODULE Spec2Model ----
(***************************************************************************)
(* Trip Itinerary Planner backend: the trips router, the weather router    *)
(* and the weather client, as state machines over the relational tables.   *)
(*                                                                         *)
(* Tables are held as sets of rows, each with its primary key.  A query     *)
(* without ORDER BY returns its rows in no fixed order, so .first() and     *)
(* next(...) are whichever matching row the scan meets.  Money is held in   *)
(* cents and                                                                *)
(* precipitation probability in tenths of a point, so that the float to    *)
(* int conversion of the weather client is visible.                        *)
(***************************************************************************)
EXTENDS Integers, Sequences, FiniteSets, TLC

\* ---------------------------------------------------------------- bounds
MaxTrips == 2
MaxMemberId == 2
MaxEnvelopes == 2
MaxExpenses == 2
NumRequests == 2
MaxDays == 3
MaxClassDays == 1

Users == {1, 2}
NoneId == 0
Names == {"Rome trip", "Oslo trip"}
Destinations == {"Rome"}
Dates == {1, 2}
Roles == {"", "viewer"}
NoneRole == "None"
Categories == {"food"}
Planned == {1000}
Amounts == {500, 700}

VARIABLES trips, members, resp, envelopes, expenses, reqs, geo, fc, wreq, wresp

vars == <<trips, members, resp, envelopes, expenses, reqs, geo, fc, wreq, wresp>>

\* the variables outside the tables and the trips router's response
others == <<reqs, geo, fc, wreq, wresp>>

\* ------------------------------------------------------------ schemas.py
TripCreate == [owner_id : Users \cup {NoneId}, name : Names, destination : Destinations,
               start_date : Dates, end_date : Dates]

NoPayload == [owner_id |-> NoneId, name |-> "", destination |-> "", start_date |-> 0, end_date |-> 0]

TripUpdateFields == {"name", "destination", "start_date", "end_date"}

\* a PATCH body: the fields the client set, and their values
TripUpdate == [fields_set : SUBSET TripUpdateFields, name : {"Oslo trip"}, destination : {"Rome"},
               start_date : {2}, end_date : {1}]

TripMemberUpsert == [user_id : Users, role : Roles]

BudgetEnvelopeCreate == [trip_id : 1..MaxTrips, category : Categories, planned_amount : Planned]

ExpenseCreate == [trip_id : 1..MaxTrips, envelope_id : {NoneId} \cup (1..MaxEnvelopes), amount : Amounts]

TripRead(trip) == [id |-> trip.id, owner_id |-> trip.owner_id, name |-> trip.name,
                   destination |-> trip.destination, start_date |-> trip.start_date,
                   end_date |-> trip.end_date]

\* ----------------------------------------------------------- the store
\* the store's id for a new row: one more than the largest id in the table
NextId(rows) == IF rows = {} THEN 1 ELSE (CHOOSE r \in rows : \A q \in rows : q.id <= r.id).id + 1

MemberRow(id, trip_id, user_id, role) == [id |-> id, trip_id |-> trip_id, user_id |-> user_id, role |-> role]

MemberRows == members

\* the store's cascade from a deleted Trip to its TripMember rows
CascadeMembers(trip_id) == {m \in MemberRows : m.trip_id # trip_id}

\* -------------------------------------------------------- routers/trips.py
Response(op, user, trip_id, status, detail, ts, ms, payload, budget) ==
    [op |-> op, user |-> user, trip_id |-> trip_id, status |-> status, detail |-> detail,
     trips |-> ts, members |-> ms, payload |-> payload, budget |-> budget]

_get_trip_or_404(trip_id) == {t \in trips : t.id = trip_id} # {}

TheTrip(trip_id) == CHOOSE t \in trips : t.id = trip_id

\* trip.members: the TripMember rows whose foreign key is the trip
trip_members(trip) == {m \in MemberRows : m.trip_id = trip.id}

_ensure_member_or_owner(trip, user_id) ==
    LET is_owner == trip.owner_id = user_id
        is_member == \E member \in trip_members(trip) : member.user_id = user_id
    IN  is_owner \/ is_member

_ensure_owner_or_member(trip, user_id) == _ensure_member_or_owner(trip, user_id)

_ensure_owner(trip, user_id) == ~(trip.owner_id # user_id)

MemberQuery_swapped(trip_id, user_id) == {m \in MemberRows : m.trip_id = user_id /\ m.user_id = trip_id}

\* db.query(TripMember).filter(trip_id == .., user_id == ..): the matching rows
MemberQuery(trip_id, user_id) == {m \in MemberRows : m.trip_id = trip_id /\ m.user_id = user_id}

NotFoundTrip(op, user, trip_id) ==
    Response(op, user, trip_id, 404, "Trip not found", {}, {}, NoPayload, <<>>)

ForbiddenRead(op, user, trip_id) ==
    Response(op, user, trip_id, 403, "Not authorized for this trip", {}, {}, NoPayload, <<>>)

ForbiddenWrite(op, user, trip_id) ==
    Response(op, user, trip_id, 403, "Only owner can perform this action", {}, {}, NoPayload, <<>>)

\* Trip outer-joined with TripMember on trip_id, filtered by owner or member, distinct
list_trips_result(user) ==
    LET NullMember == MemberRow(NoneId, NoneId, NoneId, NoneRole)
        joined == {tm \in trips \X (MemberRows \cup {NullMember}) :
                      \/ tm[2].trip_id = tm[1].id
                      \/ tm[2] = NullMember /\ ~\E m \in MemberRows : m.trip_id = tm[1].id}
        kept == {tm \in joined : tm[1].owner_id = user \/ tm[2].user_id = user}
    IN  {tm[1] : tm \in kept}

get_trip_result(trip_id, user) ==
    IF ~_get_trip_or_404(trip_id) THEN NotFoundTrip("get_trip", user, trip_id)
    ELSE IF ~_ensure_member_or_owner(TheTrip(trip_id), user) THEN ForbiddenRead("get_trip", user, trip_id)
    ELSE Response("get_trip", user, trip_id, 200, "", {TripRead(TheTrip(trip_id))}, {}, NoPayload, <<>>)

list_trip_members_result(trip_id, user) ==
    IF ~_get_trip_or_404(trip_id) THEN NotFoundTrip("list_trip_members", user, trip_id)
    ELSE IF ~_ensure_member_or_owner(TheTrip(trip_id), user) THEN ForbiddenRead("list_trip_members", user, trip_id)
    ELSE Response("list_trip_members", user, trip_id, 200, "", {}, trip_members(TheTrip(trip_id)), NoPayload, <<>>)

list_trips(user) ==
    /\ resp' = Response("list_trips", user, NoneId, 200, "", {TripRead(t) : t \in list_trips_result(user)},
                        {}, NoPayload, <<>>)
    /\ UNCHANGED <<trips, members, envelopes, expenses, others>>

\* payload.model_dump(exclude={"owner_id"}), then Trip(owner_id=current_user.id, **trip_data)
NewTrip_payload_owner(id, user, payload) ==
    [id |-> id, owner_id |-> IF payload.owner_id # NoneId THEN payload.owner_id ELSE user,
     name |-> payload.name, destination |-> payload.destination,
     start_date |-> payload.start_date, end_date |-> payload.end_date]

NewTrip(id, user, payload) ==
    LET trip_data == [name |-> payload.name, destination |-> payload.destination,
                      start_date |-> payload.start_date, end_date |-> payload.end_date]
    IN  [id |-> id, owner_id |-> user, name |-> trip_data.name,
         destination |-> trip_data.destination, start_date |-> trip_data.start_date,
         end_date |-> trip_data.end_date]

create_trip(user, payload) ==
    /\ NextId(trips) <= MaxTrips
    /\ LET trip == NewTrip(NextId(trips), user, payload)
       IN  /\ trips' = trips \cup {trip}
           /\ resp' = Response("create_trip", user, trip.id, 201, "", {TripRead(trip)}, {}, payload, <<>>)
    /\ UNCHANGED <<members, envelopes, expenses, others>>

get_trip(trip_id, user) ==
    /\ resp' = get_trip_result(trip_id, user)
    /\ UNCHANGED <<trips, members, envelopes, expenses, others>>

update_trip(trip_id, user, payload) ==
    IF ~_get_trip_or_404(trip_id)
    THEN /\ resp' = NotFoundTrip("update_trip", user, trip_id)
         /\ UNCHANGED <<trips, members, envelopes, expenses, others>>
    ELSE IF ~_ensure_owner(TheTrip(trip_id), user)
    THEN /\ resp' = ForbiddenWrite("update_trip", user, trip_id)
         /\ UNCHANGED <<trips, members, envelopes, expenses, others>>
    ELSE LET old == TheTrip(trip_id)
             update_data == payload.fields_set
             trip == [id |-> old.id, owner_id |-> old.owner_id,
                      name |-> IF "name" \in update_data THEN payload.name ELSE old.name,
                      destination |-> IF "destination" \in update_data THEN payload.destination ELSE old.destination,
                      start_date |-> IF "start_date" \in update_data THEN payload.start_date ELSE old.start_date,
                      end_date |-> IF "end_date" \in update_data THEN payload.end_date ELSE old.end_date]
         IN  /\ trips' = (trips \ {old}) \cup {trip}
             /\ resp' = Response("update_trip", user, trip_id, 200, "", {TripRead(trip)}, {}, NoPayload, <<>>)
             /\ UNCHANGED <<members, envelopes, expenses, others>>

delete_trip(trip_id, user) ==
    IF ~_get_trip_or_404(trip_id)
    THEN /\ resp' = NotFoundTrip("delete_trip", user, trip_id)
         /\ UNCHANGED <<trips, members, envelopes, expenses, others>>
    ELSE IF ~_ensure_owner(TheTrip(trip_id), user)
    THEN /\ resp' = ForbiddenWrite("delete_trip", user, trip_id)
         /\ UNCHANGED <<trips, members, envelopes, expenses, others>>
    ELSE /\ trips' = trips \ {TheTrip(trip_id)}
         /\ members' = CascadeMembers(trip_id)
         /\ resp' = Response("delete_trip", user, trip_id, 204, "", {}, {}, NoPayload, <<>>)
         /\ UNCHANGED <<envelopes, expenses, others>>

list_trip_members(trip_id, user) ==
    /\ resp' = list_trip_members_result(trip_id, user)
    /\ UNCHANGED <<trips, members, envelopes, expenses, others>>

UpdateRole_adds(member, role) ==
    members \cup {MemberRow(NextId(members), member.trip_id, member.user_id, role)}

\* the member found exists: its role is set in place
UpdateRole(member, role) == (members \ {member}) \cup {[member EXCEPT !.role = role]}

add_or_update_member(trip_id, user, payload) ==
    IF ~_get_trip_or_404(trip_id)
    THEN /\ resp' = NotFoundTrip("add_or_update_member", user, trip_id)
         /\ UNCHANGED <<trips, members, envelopes, expenses, others>>
    ELSE IF ~_ensure_owner(TheTrip(trip_id), user)
    THEN /\ resp' = ForbiddenWrite("add_or_update_member", user, trip_id)
         /\ UNCHANGED <<trips, members, envelopes, expenses, others>>
    ELSE LET found == MemberQuery(trip_id, payload.user_id)
             new == MemberRow(NextId(members), trip_id, payload.user_id, payload.role)
         IN  /\ IF found # {}
                THEN \E member \in found :
                        /\ members' = UpdateRole(member, payload.role)
                        /\ resp' = Response("add_or_update_member", user, trip_id, 201, "", {},
                                            {[member EXCEPT !.role = payload.role]}, NoPayload, <<>>)
                ELSE /\ new.id <= MaxMemberId
                     /\ members' = members \cup {new}
                     /\ resp' = Response("add_or_update_member", user, trip_id, 201, "", {}, {new},
                                         NoPayload, <<>>)
             /\ UNCHANGED <<trips, envelopes, expenses, others>>

delete_member(trip_id, user_id, user) ==
    IF ~_get_trip_or_404(trip_id)
    THEN /\ resp' = NotFoundTrip("delete_member", user, trip_id)
         /\ UNCHANGED <<trips, members, envelopes, expenses, others>>
    ELSE IF ~_ensure_owner(TheTrip(trip_id), user)
    THEN /\ resp' = ForbiddenWrite("delete_member", user, trip_id)
         /\ UNCHANGED <<trips, members, envelopes, expenses, others>>
    ELSE LET found == MemberQuery(trip_id, user_id)
             target == {MemberRow(NoneId, trip_id, user_id, NoneRole)}
         IN  IF found = {}
             THEN /\ resp' = Response("delete_member", user, trip_id, 404, "Member not found", {}, target, NoPayload, <<>>)
                  /\ UNCHANGED <<trips, members, envelopes, expenses, others>>
             ELSE /\ \E member \in found : members' = members \ {member}
                  /\ resp' = Response("delete_member", user, trip_id, 204, "", {}, target, NoPayload, <<>>)
                  /\ UNCHANGED <<trips, envelopes, expenses, others>>

\* --------------------------------------------- routers/trips.py: export
\* db.query(..).filter(.. .trip_id == trip_id).all()
RowsOfTrip(rows, trip_id) == {r \in rows : r.trip_id = trip_id}

\* the rows of a query in the order the store returns them
RECURSIVE InIdOrder(_)
InIdOrder(rows) ==
    IF rows = {} THEN <<>>
    ELSE LET r == CHOOSE x \in rows : \A y \in rows : x.id <= y.id
         IN  <<r>> \o InIdOrder(rows \ {r})

RECURSIVE SumAmounts_all(_, _)
SumAmounts_all(exps, env) ==
    IF exps = <<>> THEN 0 ELSE Head(exps).amount + SumAmounts_all(Tail(exps), env)

\* sum(exp.amount for exp in expenses if exp.envelope_id == env.id)
RECURSIVE SumAmounts(_, _)
SumAmounts(exps, env) ==
    IF exps = <<>> THEN 0
    ELSE (IF Head(exps).envelope_id = env.id THEN Head(exps).amount ELSE 0) + SumAmounts(Tail(exps), env)

\* the budget section: one line per envelope, planned and actual
BudgetLines(envs, exps) ==
    [i \in 1..Len(envs) |-> [envelope_id |-> envs[i].id, category |-> envs[i].category,
                             planned |-> envs[i].planned_amount, actual |-> SumAmounts(exps, envs[i])]]

export_trip_pdf_result(trip_id, user) ==
    IF ~_get_trip_or_404(trip_id) THEN NotFoundTrip("export_trip_pdf", user, trip_id)
    ELSE IF ~_ensure_member_or_owner(TheTrip(trip_id), user) THEN ForbiddenRead("export_trip_pdf", user, trip_id)
    ELSE LET envs == InIdOrder(RowsOfTrip(envelopes, trip_id))
             exps == InIdOrder(RowsOfTrip(expenses, trip_id))
         IN  Response("export_trip_pdf", user, trip_id, 200, "", {TripRead(TheTrip(trip_id))}, {},
                      NoPayload, BudgetLines(envs, exps))

export_trip_pdf(trip_id, user) ==
    /\ resp' = export_trip_pdf_result(trip_id, user)
    /\ UNCHANGED <<trips, members, envelopes, expenses, others>>

\* the budget router's inserts, from the BudgetEnvelopeCreate and ExpenseCreate bodies
create_envelope(payload) ==
    /\ Cardinality(envelopes) < MaxEnvelopes
    /\ envelopes' = envelopes \cup {[id |-> NextId(envelopes), trip_id |-> payload.trip_id,
                                     category |-> payload.category, planned_amount |-> payload.planned_amount]}
    /\ UNCHANGED <<trips, members, resp, expenses, others>>

create_expense(payload) ==
    /\ Cardinality(expenses) < MaxExpenses
    /\ expenses' = expenses \cup {[id |-> NextId(expenses), trip_id |-> payload.trip_id,
                                   envelope_id |-> payload.envelope_id, amount |-> payload.amount]}
    /\ UNCHANGED <<trips, members, resp, envelopes, others>>

\* ------------------- routers/trips.py: add_or_update_member, step by step
NoRow == MemberRow(NoneId, NoneId, NoneId, NoneRole)

\* a request in flight: its position, the row the lookup loaded, the primary key of
\* the object after the commit, the rank of its commit among the commits, and the
\* response
Request(user, trip_id, user_id, role) ==
    [pc |-> "start", user |-> user, trip_id |-> trip_id, user_id |-> user_id, role |-> role,
     found |-> NoRow, pk |-> NoneId, seq |-> 0, status |-> 0, returned |-> NoRow]

\* the store's constraint on TripMember, one row per (trip, user) pair: an INSERT
\* of a pair that has a row is refused
ViolatesUniquePair(trip_id, user_id) == MemberQuery(trip_id, user_id) # {}

\* the rank of the next commit
NextSeq == Cardinality({q \in DOMAIN reqs : reqs[q].seq > 0}) + 1

\* lines 124-131: the trip, the owner check and the query for the existing row
add_or_update_member_lookup(r) ==
    /\ reqs[r].pc = "start"
    /\ IF ~_get_trip_or_404(reqs[r].trip_id)
       THEN reqs' = [reqs EXCEPT ![r].pc = "done", ![r].status = 404]
       ELSE IF ~_ensure_owner(TheTrip(reqs[r].trip_id), reqs[r].user)
       THEN reqs' = [reqs EXCEPT ![r].pc = "done", ![r].status = 403]
       ELSE LET found == MemberQuery(reqs[r].trip_id, reqs[r].user_id)
            IN  IF found = {}
                THEN reqs' = [reqs EXCEPT ![r].pc = "looked_up", ![r].found = NoRow]
                ELSE \E member \in found : reqs' = [reqs EXCEPT ![r].pc = "looked_up", ![r].found = member]
    /\ UNCHANGED <<trips, members, resp, envelopes, expenses, geo, fc, wreq, wresp>>

\* lines 132-137, on the object loaded by the lookup.  member.role = payload.role
\* changes the object, and the commit writes, by primary key, the attributes whose
\* value differs from the loaded one; with no row loaded a row is inserted.  An
\* UPDATE that meets no row, or an INSERT the store refuses, raises: 500.
add_or_update_member_commit(r) ==
    /\ reqs[r].pc = "looked_up"
    /\ LET member == reqs[r].found
           stored == {m \in MemberRows : m.id = member.id}
           new == MemberRow(NextId(members), reqs[r].trip_id, reqs[r].user_id, reqs[r].role)
       IN  IF member = NoRow
           THEN IF ViolatesUniquePair(reqs[r].trip_id, reqs[r].user_id)
                THEN /\ members' = members
                     /\ reqs' = [reqs EXCEPT ![r].pc = "done", ![r].status = 500]
                ELSE /\ members' = members \cup {new}
                     /\ reqs' = [reqs EXCEPT ![r].pc = "committed", ![r].pk = new.id, ![r].seq = NextSeq]
           ELSE IF reqs[r].role = member.role
           THEN /\ members' = members
                /\ reqs' = [reqs EXCEPT ![r].pc = "committed", ![r].pk = member.id, ![r].seq = NextSeq]
           ELSE IF stored = {}
           THEN /\ members' = members
                /\ reqs' = [reqs EXCEPT ![r].pc = "done", ![r].status = 500]
           ELSE /\ members' = {IF m.id = member.id THEN [m EXCEPT !.role = reqs[r].role] ELSE m : m \in members}
                /\ reqs' = [reqs EXCEPT ![r].pc = "committed", ![r].pk = member.id, ![r].seq = NextSeq]
    /\ UNCHANGED <<trips, resp, envelopes, expenses, geo, fc, wreq, wresp>>

\* lines 138-139: db.refresh(member) reads the row of the object's primary key, and
\* the row read is the response; a row that is no longer there raises: 500
add_or_update_member_refresh(r) ==
    /\ reqs[r].pc = "committed"
    /\ LET stored == {m \in MemberRows : m.id = reqs[r].pk}
       IN  IF stored = {}
           THEN reqs' = [reqs EXCEPT ![r].pc = "done", ![r].status = 500]
           ELSE \E row \in stored :
                   reqs' = [reqs EXCEPT ![r].pc = "done", ![r].status = 201, ![r].returned = row]
    /\ UNCHANGED <<trips, members, resp, envelopes, expenses, geo, fc, wreq, wresp>>

\* ----------------------------------------- routers/weather.py: the gate
\* next((m for m in trip.members if m.user_id == user_id), None): the first row of
\* the user in the order the store returns trip.members, or None.  The rows are
\* kept without their order, so with several rows of one pair any of them can
\* be the first.
FirstMembership(trip, user_id) ==
    LET matching == {m \in trip_members(trip) : m.user_id = user_id}
    IN  IF matching # {} THEN matching ELSE {NoRow}

\* membership is the row next(...) returned, NoRow for None
_user_role_for_trip(trip, user_id, membership) ==
    IF trip.owner_id = user_id THEN "owner"
    ELSE IF membership # NoRow THEN membership.role ELSE NoneRole

\* Python truth of an optional string: None and "" are false
Truthy(role) == role # NoneRole /\ role # ""

_require_view_access(trip, user_id, membership) ==
    LET role == _user_role_for_trip(trip, user_id, membership)
    IN  ~(~Truthy(role))

\* ------------------------------------------- services/weather_client.py
\* what the geocoding provider does with the request
GeoOutcomes == {"transport_error", "http_error", "invalid_json", "not_an_object", "results_absent",
                "results_null", "results_empty", "first_without_latitude", "latitude_not_a_number", "found"}

NoCoords == [found |-> FALSE, lat |-> 0, lon |-> 0]

geocode_city(outcome) ==
    IF outcome = "transport_error" THEN NoCoords            \* client.get raises
    ELSE IF outcome = "http_error" THEN NoCoords            \* raise_for_status raises
    ELSE IF outcome = "invalid_json" THEN NoCoords          \* resp.json() raises
    ELSE IF outcome = "not_an_object" THEN NoCoords         \* data.get raises
    ELSE LET results == IF outcome \in {"results_absent", "results_null", "results_empty"} THEN <<>>
                        ELSE <<outcome>>
         IN  IF results = <<>> THEN NoCoords
             ELSE IF results[1] = "first_without_latitude" THEN NoCoords   \* KeyError
             ELSE IF results[1] = "latitude_not_a_number" THEN NoCoords    \* float() raises
             ELSE [found |-> TRUE, lat |-> 42, lon |-> 12]

\* an element of a measurement array: a number or JSON null
Num(v) == [null |-> FALSE, v |-> v]
Null == [null |-> TRUE, v |-> 0]
\* an element of the date array: an ISO date (its day number) or another string
IsoDate(day) == [valid |-> TRUE, day |-> day]
NotADate == [valid |-> FALSE, day |-> 0]

\* what the forecast provider does: a failure, or a JSON body with its "daily" member
Forecast(kind, daily, time, tmax, tmin, precip) ==
    [kind |-> kind, daily |-> daily, time |-> time, temperature_2m_max |-> tmax,
     temperature_2m_min |-> tmin, precipitation_probability_max |-> precip]

ForecastFailure(kind) == Forecast(kind, "absent", <<>>, <<>>, <<>>, <<>>)

ClearAdvice == "Good weather - great day for walking and outdoor plans."
RainyAdvice == "Heavy rain expected - plan indoor activities or rideshares."
CloudyAdvice == "Chance of showers - keep an umbrella handy and have a backup indoor option."
HotAdvice == "Very hot - schedule outdoor activities early and stay hydrated."
ColdAdvice == "Cold weather - bring layers and keep walks shorter."

\* int(prob) of a probability held in tenths: truncation toward zero
IntOfTenths(prob) == IF prob >= 0 THEN prob \div 10 ELSE -((-prob) \div 10)

\* lines 52-63: prob in tenths of a point, hi and lo a number or None
Summary(prob) == IF prob >= 70 * 10 THEN "Rainy" ELSE IF prob >= 40 * 10 THEN "Cloudy" ELSE "Clear"

Advice_hot_wins(prob, hi, lo) ==
    LET a1 == IF prob >= 70 * 10 THEN RainyAdvice ELSE IF prob >= 40 * 10 THEN CloudyAdvice ELSE ClearAdvice
        a2 == IF ~lo.null /\ lo.v <= 35 THEN ColdAdvice ELSE a1
    IN  IF ~hi.null /\ hi.v >= 32 THEN HotAdvice ELSE a2

Advice(prob, hi, lo) ==
    LET a1 == IF prob >= 70 * 10 THEN RainyAdvice ELSE IF prob >= 40 * 10 THEN CloudyAdvice ELSE ClearAdvice
        a2 == IF ~hi.null /\ hi.v >= 32 THEN HotAdvice ELSE a1
    IN  IF ~lo.null /\ lo.v <= 35 THEN ColdAdvice ELSE a2

At_clamped(arr, idx) == IF arr = <<>> THEN Null ELSE IF idx <= Len(arr) THEN arr[idx] ELSE arr[Len(arr)]

\* tmax[idx] if idx < len(tmax) else None (idx counted from 1 here)
At(arr, idx) == IF idx <= Len(arr) THEN arr[idx] ELSE Null

\* lines 48-74 for one index: the day's dictionary
Day(f, idx) ==
    LET prob == IF idx <= Len(f.precipitation_probability_max)
                THEN f.precipitation_probability_max[idx] ELSE Num(0)
        hi == At(f.temperature_2m_max, idx)
        lo == At(f.temperature_2m_min, idx)
    IN  [date |-> f.time[idx].day,
         temp_max |-> IF ~hi.null THEN hi.v ELSE 0,
         temp_min |-> IF ~lo.null THEN lo.v ELSE 0,
         precip_prob |-> IntOfTenths(prob.v),
         summary |-> Summary(prob.v),
         advice |-> Advice(prob.v, hi, lo)]

\* the loop raises: a null probability is compared with 70, or a date does not parse
DayRaises(f, idx) ==
    \/ idx <= Len(f.precipitation_probability_max) /\ f.precipitation_probability_max[idx].null
    \/ ~f.time[idx].valid

\* the result of the call: the list returned, or an exception leaving the function
fetch_daily_forecast(f) ==
    IF f.kind \in {"transport_error", "http_error", "invalid_json", "not_an_object"}
    THEN [raised |-> FALSE, days |-> <<>>]                     \* except Exception: return []
    ELSE IF f.daily = "null" THEN [raised |-> TRUE, days |-> <<>>]   \* None.get
    ELSE IF f.daily = "absent" THEN [raised |-> FALSE, days |-> <<>>]
    ELSE IF \E idx \in 1..Len(f.time) : DayRaises(f, idx) THEN [raised |-> TRUE, days |-> <<>>]
    ELSE [raised |-> FALSE, days |-> [idx \in 1..Len(f.time) |-> Day(f, idx)]]

\* ------------------------------------------------------ routers/weather.py
WeatherResponse(user, trip_id, status, detail, days, geocoded, forecast_called) ==
    [user |-> user, trip_id |-> trip_id, status |-> status, detail |-> detail, days |-> days,
     geocoded |-> geocoded, forecast_called |-> forecast_called]

\* the handler is a coroutine: it leaves the event loop at each await, and other
\* requests are served meanwhile.  wreq is the request in flight and its position.
NoWeatherRequest == [pc |-> "idle", user |-> NoneId, trip_id |-> NoneId]

\* lines 37-40: the trip, the gate, and the call of the geocoder
trip_weather_gate(trip_id, user) ==
    /\ wreq.pc = "idle"
    /\ IF ~_get_trip_or_404(trip_id)
       THEN /\ wresp' = WeatherResponse(user, trip_id, 404, "Trip not found", <<>>, FALSE, FALSE)
            /\ UNCHANGED wreq
       ELSE \E membership \in FirstMembership(TheTrip(trip_id), user) :
               IF ~_require_view_access(TheTrip(trip_id), user, membership)
               THEN /\ wresp' = WeatherResponse(user, trip_id, 403, "Not authorized for this trip",
                                                <<>>, FALSE, FALSE)
                    /\ UNCHANGED wreq
               ELSE /\ wreq' = [pc |-> "geocoding", user |-> user, trip_id |-> trip_id]
                    /\ UNCHANGED wresp
    /\ UNCHANGED <<trips, members, resp, envelopes, expenses, reqs, geo, fc>>

\* lines 40-45: the geocoder has answered; without coordinates 404, else the
\* call of the forecast provider
trip_weather_geocoded ==
    /\ wreq.pc = "geocoding"
    /\ LET coords == geocode_city(geo)
       IN  IF ~coords.found
           THEN /\ wresp' = WeatherResponse(wreq.user, wreq.trip_id, 404,
                                            "Could not find location for this trip's destination",
                                            <<>>, TRUE, FALSE)
                /\ wreq' = NoWeatherRequest
           ELSE /\ wreq' = [wreq EXCEPT !.pc = "forecasting"]
                /\ UNCHANGED wresp
    /\ UNCHANGED <<trips, members, resp, envelopes, expenses, reqs, geo, fc>>

\* lines 45-47: the forecast call has ended; the days of the response, or the
\* exception that left fetch_daily_forecast
trip_weather_forecast ==
    /\ wreq.pc = "forecasting"
    /\ LET daily == fetch_daily_forecast(fc)
       IN  wresp' = IF daily.raised
                    THEN WeatherResponse(wreq.user, wreq.trip_id, 500, "Internal Server Error", <<>>, TRUE, TRUE)
                    ELSE WeatherResponse(wreq.user, wreq.trip_id, 200, "", daily.days, TRUE, TRUE)
    /\ wreq' = NoWeatherRequest
    /\ UNCHANGED <<trips, members, resp, envelopes, expenses, reqs, geo, fc>>

\* ------------------------------------------------------- specification
TripIds == 1..MaxTrips

\* the create and patch bodies the requests of Spec carry
CreateInputs == {p \in TripCreate : p.name = "Rome trip" /\ p.start_date = 1 /\ p.end_date = 2}

UpdateInputs == {p \in TripUpdate : p.fields_set = {}}

NoResponse == Response("none", NoneId, NoneId, 0, "", {}, {}, NoPayload, <<>>)

NoWeatherResponse == WeatherResponse(NoneId, NoneId, 0, "", <<>>, FALSE, FALSE)

\* no request in flight, no weather request answered yet
Idle ==
    /\ reqs = <<>>
    /\ geo = "found"
    /\ fc = ForecastFailure("transport_error")
    /\ wreq = NoWeatherRequest
    /\ wresp = NoWeatherResponse

Init ==
    /\ trips = {}
    /\ members = {}
    /\ resp = NoResponse
    /\ envelopes = {}
    /\ expenses = {}
    /\ Idle

\* the writes of the trips router and the roster read, one request at a time; the
\* other reads are served in SpecTrips and SpecExport
Next ==
    \/ \E u \in Users, p \in CreateInputs : create_trip(u, p)
    \/ \E u \in Users, t \in TripIds, p \in UpdateInputs : update_trip(t, u, p)
    \/ \E u \in Users, t \in TripIds : delete_trip(t, u)
    \/ \E u \in Users, t \in TripIds : list_trip_members(t, u)
    \/ \E u \in Users, t \in TripIds, p \in TripMemberUpsert : add_or_update_member(t, u, p)
    \/ \E u \in Users, t \in TripIds, m \in Users : delete_member(t, m, u)

Spec == Init /\ [][Next]_vars

\* ---- the export over a budget: two trips of user 1, then envelopes and expenses
TwoTrips == {[id |-> i, owner_id |-> 1, name |-> "Rome trip", destination |-> "Rome",
              start_date |-> 1, end_date |-> 2] : i \in {1, 2}}

InitExport ==
    /\ trips = TwoTrips
    /\ members = {}
    /\ resp = NoResponse
    /\ envelopes = {}
    /\ expenses = {}
    /\ Idle

NextExport ==
    \/ \E p \in {q \in BudgetEnvelopeCreate : _get_trip_or_404(q.trip_id)} : create_envelope(p)
    \/ \E p \in {q \in ExpenseCreate : _get_trip_or_404(q.trip_id)} : create_expense(p)
    \/ \E u \in Users, t \in TripIds : export_trip_pdf(t, u)

SpecExport == InitExport /\ [][NextExport]_vars
\* ---- trip fields: create, read and patch with every body of the schemas
NextTrips ==
    \/ \E u \in Users : list_trips(u)
    \/ \E u \in Users, p \in TripCreate : create_trip(u, p)
    \/ \E u \in Users, t \in TripIds : delete_trip(t, u)
    \/ \E u \in Users, t \in TripIds : get_trip(t, u)
    \/ \E u \in Users, t \in TripIds, p \in {q \in TripUpdate : q.fields_set \in {{"name"}, TripUpdateFields}} :
          update_trip(t, u, p)

SpecTrips == Init /\ [][NextTrips]_vars

\* ---- two or more upserts of one pair in flight at once
OneTrip == {[id |-> 1, owner_id |-> 1, name |-> "Rome trip", destination |-> "Rome",
             start_date |-> 1, end_date |-> 2]}

InitConc ==
    /\ trips = OneTrip
    /\ resp = NoResponse
    /\ envelopes = {}
    /\ expenses = {}
    /\ geo = "found"
    /\ fc = ForecastFailure("transport_error")
    /\ wreq = NoWeatherRequest
    /\ wresp = NoWeatherResponse
    /\ \E target \in Users :
          /\ members \in {{}} \cup {{MemberRow(1, 1, target, role)} : role \in Roles}
          /\ \E roles \in [1..NumRequests -> Roles \cup {"editor"}] :
                reqs = [r \in 1..NumRequests |-> Request(1, 1, target, roles[r])]

NextConc ==
    \/ \E r \in DOMAIN reqs : add_or_update_member_lookup(r)
    \/ \E r \in DOMAIN reqs : add_or_update_member_commit(r)
    \/ \E r \in DOMAIN reqs : add_or_update_member_refresh(r)

SpecConc == InitConc /\ [][NextConc]_vars

\* ---- the weather route against the providers
RECURSIVE SeqsUpTo(_, _)
SeqsUpTo(S, n) ==
    IF n = 0 THEN {<<>>}
    ELSE LET shorter == SeqsUpTo(S, n - 1)
         IN  shorter \cup {Append(q, x) : q \in {p \in shorter : Len(p) = n - 1}, x \in S}

\* the date array of a forecast for n days from the trip's start date
DatesFrom(n) == [i \in 1..n |-> IsoDate(i)]

InitWeatherTables(rosters) ==
    /\ trips = OneTrip
    /\ members \in rosters
    /\ resp = NoResponse
    /\ envelopes = {}
    /\ expenses = {}
    /\ reqs = <<>>
    /\ wreq = NoWeatherRequest
    /\ wresp = NoWeatherResponse

\* well-typed arrays of any lengths
InitForecast ==
    /\ InitWeatherTables({{}})
    /\ geo = "found"
    /\ \E n \in 0..MaxDays :
       \E tmax \in SeqsUpTo({Num(20), Num(33)}, MaxDays), tmin \in SeqsUpTo({Num(10), Num(36)}, MaxDays),
          precip \in SeqsUpTo({Num(455), Num(700)}, MaxDays) :
            fc = Forecast("json", "object", DatesFrom(n), tmax, tmin, precip)

\* the owner's weather requests, step by step
NextForecast ==
    \/ \E u \in {1} : trip_weather_gate(1, u)
    \/ trip_weather_geocoded
    \/ trip_weather_forecast

SpecForecast == InitForecast /\ [][NextForecast]_vars

\* measurements around every threshold, present, null or missing
InitClassify ==
    /\ InitWeatherTables({{}})
    /\ geo = "found"
    /\ \E n \in 0..MaxClassDays :
       \E tmax \in SeqsUpTo({Null, Num(0), Num(31), Num(32)}, MaxClassDays),
          tmin \in SeqsUpTo({Null, Num(0), Num(35), Num(36)}, MaxClassDays),
          precip \in SeqsUpTo({Num(0), Num(399), Num(400), Num(695), Num(700), Num(1000)}, MaxClassDays) :
            fc = Forecast("json", "object", DatesFrom(n), tmax, tmin, precip)

SpecClassify == InitClassify /\ [][NextForecast]_vars

\* every behaviour of the two providers
ForecastOutcomes ==
    {ForecastFailure(kind) : kind \in {"transport_error", "http_error", "invalid_json", "not_an_object"}}
    \cup {Forecast("json", daily, <<>>, <<>>, <<>>, <<>>) : daily \in {"absent", "null"}}
    \cup {Forecast("json", "object", time, tmax, tmin, precip) :
             time \in SeqsUpTo({IsoDate(1), NotADate}, MaxClassDays),
             tmax \in SeqsUpTo({Null, Num(20)}, MaxClassDays),
             tmin \in SeqsUpTo({Null, Num(10)}, MaxClassDays),
             precip \in SeqsUpTo({Null, Num(455)}, MaxClassDays)}

\* the rosters a weather request can meet: no row, or one row of user 2
WeatherRosters == {{}} \cup {{MemberRow(1, 1, 2, role)} : role \in Roles}

InitWeather ==
    /\ InitWeatherTables(WeatherRosters)
    /\ geo \in GeoOutcomes
    /\ fc \in ForecastOutcomes

\* weather requests step by step, and the roster written while one is in flight
NextWeather ==
    \/ \E u \in Users, t \in TripIds : trip_weather_gate(t, u)
    \/ trip_weather_geocoded
    \/ trip_weather_forecast
    \/ \E u \in Users, p \in TripMemberUpsert : add_or_update_member(1, u, p)
    \/ \E u \in Users, m \in Users : delete_member(1, m, u)

SpecWeather == InitWeather /\ [][NextWeather]_vars

\* ================================================================ claims
ReadOps == {"get_trip", "list_trip_members", "export_trip_pdf"}
WriteOps == {"update_trip", "delete_trip", "add_or_update_member", "delete_member"}

\* the number of TripMember rows of a (trip, user) pair
PairRows(ms, trip_id, user_id) == Cardinality({x \in ms : x.trip_id = trip_id /\ x.user_id = user_id})

TripRowCount(ms, trip_id) == Cardinality({x \in ms : x.trip_id = trip_id})

IsOwnerOrMember(t, u) == t.owner_id = u \/ PairRows(members, t.id, u) >= 1

C1_ReadRule ==
    \A t \in trips, u \in Users :
        /\ (get_trip_result(t.id, u).status = 200) <=> IsOwnerOrMember(t, u)
        /\ (list_trip_members_result(t.id, u).status = 200) <=> IsOwnerOrMember(t, u)
        /\ (export_trip_pdf_result(t.id, u).status = 200) <=> IsOwnerOrMember(t, u)
        /\ (t \in list_trips_result(u)) <=> IsOwnerOrMember(t, u)
        /\ ~IsOwnerOrMember(t, u) =>
              /\ get_trip_result(t.id, u).status = 403
              /\ list_trip_members_result(t.id, u).status = 403
              /\ export_trip_pdf_result(t.id, u).status = 403

\* a write request on an existing trip: refused with 403, and nothing written, unless the caller owns it
C1_WriteRule ==
    (resp'.op \in WriteOps /\ _get_trip_or_404(resp'.trip_id)) =>
        LET t == TheTrip(resp'.trip_id)
        IN  IF t.owner_id = resp'.user
            THEN resp'.status \in {200, 201, 204, 404} /\ resp'.detail # "Only owner can perform this action"
            ELSE resp'.status = 403 /\ UNCHANGED <<trips, members>>

\* C1: on every existing trip a read succeeds iff the caller is the owner or has a
\* membership row, and a write passes authorization iff the caller is the owner and
\* is otherwise answered 403 Forbidden.
C1_Access == []C1_ReadRule /\ [][C1_WriteRule]_vars

\* a member who is not the owner has read the trip, and has been refused a write on it
C1_Witness ==
    /\ resp.op \in WriteOps /\ resp.status = 403
    /\ _get_trip_or_404(resp.trip_id)
    /\ PairRows(members, resp.trip_id, resp.user) = 1
    /\ get_trip_result(resp.trip_id, resp.user).status = 200
    /\ \E t \in trips, u \in Users : get_trip_result(t.id, u).status = 403

C2_AtMostOne == \A t \in TripIds, u \in Users : PairRows(members, t, u) <= 1

\* the upsert of a pair that has a row: the role is the supplied one, no row is added
C2_UpsertStep ==
    \A row \in resp'.members :
        (/\ resp'.op = "add_or_update_member" /\ resp'.status = 201
         /\ PairRows(members, row.trip_id, row.user_id) >= 1) =>
            /\ Cardinality(members') = Cardinality(members)
            /\ {m.id : m \in members'} = {m.id : m \in members}
            /\ TripRowCount(members', row.trip_id) = TripRowCount(members, row.trip_id)
            /\ PairRows(members', row.trip_id, row.user_id) = 1
            /\ \A m \in members' :
                  (m.trip_id = row.trip_id /\ m.user_id = row.user_id) => m.role = row.role
            /\ \A m \in members :
                  (m.trip_id # row.trip_id \/ m.user_id # row.user_id) => m \in members'

\* C2: with requests processed one at a time, add_or_update_member for a pair that
\* already has a row sets that row's role, adds no row and leaves the member count
\* unchanged; there is never more than one row per (trip, user) pair.
C2_Upsert == []C2_AtMostOne /\ [][C2_UpsertStep]_vars

\* an upsert has just changed the role of an existing row, beside another row
C2_Witness ==
    /\ resp.op = "add_or_update_member" /\ resp.status = 201
    /\ Cardinality(members) = 2
    /\ \E row \in resp.members : row.role = "" /\ row \in members /\ row.id = 1

\* C3: delete_member by the owner for a pair without a row answers 404
\* "Member not found" and leaves every membership roster unchanged.
C3_DeleteAbsent ==
    [][\A row \in resp'.members :
          (/\ resp'.op = "delete_member"
           /\ _get_trip_or_404(resp'.trip_id)
           /\ TheTrip(resp'.trip_id).owner_id = resp'.user
           /\ PairRows(members, row.trip_id, row.user_id) = 0) =>
              /\ resp'.status = 404 /\ resp'.detail = "Member not found"
              /\ members' = members]_vars

\* the owner has been answered 404 for a pair without a row while other rows exist
C3_Witness ==
    /\ resp.op = "delete_member" /\ resp.status = 404 /\ resp.detail = "Member not found"
    /\ Cardinality(members) = 2
    /\ \E t \in trips : t.id # resp.trip_id /\ TripRowCount(members, t.id) >= 1

RECURSIVE SetSum(_)
SetSum(rows) ==
    IF rows = {} THEN 0
    ELSE LET r == CHOOSE x \in rows : TRUE IN r.amount + SetSum(rows \ {r})

\* C7: every budget line of the export reports, for its envelope, the sum of the
\* amounts of the expenses of the same trip linked to that envelope; there is one
\* line per envelope of the trip, and an envelope without linked expense reports 0.
C7_ExportActual ==
    \A t \in trips, u \in Users :
        LET r == export_trip_pdf_result(t.id, u)
        IN  r.status = 200 =>
               /\ Len(r.budget) = Cardinality({e \in envelopes : e.trip_id = t.id})
               /\ {r.budget[i].envelope_id : i \in 1..Len(r.budget)} = {e.id : e \in {x \in envelopes : x.trip_id = t.id}}
               /\ \A i \in 1..Len(r.budget) :
                     r.budget[i].actual =
                        SetSum({x \in expenses : x.trip_id = t.id /\ x.envelope_id = r.budget[i].envelope_id})

\* an export has reported an envelope's actual while the trip's other expense, linked
\* elsewhere, and an expense of another trip linked to this envelope stayed out of it
C7_Witness ==
    /\ resp.op = "export_trip_pdf" /\ resp.status = 200
    /\ resp.budget = export_trip_pdf_result(resp.trip_id, resp.user).budget
    /\ \E i \in 1..Len(resp.budget) :
          /\ resp.budget[i].actual > 0
          /\ \E x \in expenses : x.trip_id # resp.trip_id /\ x.envelope_id = resp.budget[i].envelope_id

\* C8: right after create_trip, get_trip by the same caller succeeds and returns the
\* submitted name, destination and dates, with owner_id the caller's id whatever
\* owner_id the payload carried.
C8_RoundTrip ==
    resp.op = "create_trip" =>
        LET r == get_trip_result(resp.trip_id, resp.user)
        IN  /\ r.status = 200
            /\ \A t \in r.trips :
                  /\ t.id = resp.trip_id
                  /\ t.name = resp.payload.name
                  /\ t.destination = resp.payload.destination
                  /\ t.start_date = resp.payload.start_date
                  /\ t.end_date = resp.payload.end_date
                  /\ t.owner_id = resp.user
            /\ Cardinality(r.trips) = 1

\* a trip has just been created from a payload naming another user as owner
C8_Witness ==
    /\ resp.op = "create_trip" /\ resp.status = 201
    /\ resp.payload.owner_id \notin {NoneId, resp.user}
    /\ resp.payload.start_date > resp.payload.end_date
    /\ get_trip_result(resp.trip_id, resp.user).status = 200

\* C9: the weather route's read gate admits exactly the (trip, user) pairs that
\* _ensure_member_or_owner admits, whatever role strings the roster carries.
C9_SameGate ==
    \A t \in trips, u \in Users :
        \A membership \in FirstMembership(t, u) :
            _require_view_access(t, u, membership) <=> _ensure_member_or_owner(t, u)

\* the rules of the claim, on the values a returned day carries
RuleSummary(precip_prob) ==
    IF precip_prob >= 70 THEN "Rainy" ELSE IF precip_prob >= 40 THEN "Cloudy" ELSE "Clear"

RuleAdvice(precip_prob, hot, cold) ==
    IF cold THEN ColdAdvice
    ELSE IF hot THEN HotAdvice
    ELSE IF precip_prob >= 70 THEN RainyAdvice
    ELSE IF precip_prob >= 40 THEN CloudyAdvice
    ELSE ClearAdvice

Measured(arr, i) == i <= Len(arr) /\ ~arr[i].null

\* C4 as stated: the summary and advice of every returned day are the rules applied
\* to that day's returned precip_prob, temp_max and temp_min.
C4_PureOfReturned ==
    \A i \in 1..Len(wresp.days) :
        LET d == wresp.days[i]
        IN  /\ d.summary = RuleSummary(d.precip_prob)
            /\ d.advice = RuleAdvice(d.precip_prob, d.temp_max >= 32, d.temp_min <= 35)

\* C4 amended: the summary is the precipitation rule on the returned precip_prob; the
\* heat and cold rules apply to the returned temperatures only where the provider
\* supplied the measurement, and not to a 0.0 that stands for a missing or null one.
C4_Classification ==
    \A i \in 1..Len(wresp.days) :
        LET d == wresp.days[i]
            hot == Measured(fc.temperature_2m_max, i) /\ d.temp_max >= 32
            cold == Measured(fc.temperature_2m_min, i) /\ d.temp_min <= 35
        IN  /\ d.summary = RuleSummary(d.precip_prob)
            /\ d.advice = RuleAdvice(d.precip_prob, hot, cold)
            /\ (Measured(fc.temperature_2m_max, i) /\ Measured(fc.temperature_2m_min, i)) =>
                  d.advice = RuleAdvice(d.precip_prob, d.temp_max >= 32, d.temp_min <= 35)

\* a day of 69.5 percent is returned as 69 and Cloudy; its max of 32 with no min
\* measurement gives the heat caution although temp_min is returned as 0.0
C4_Witness ==
    /\ wresp.status = 200
    /\ \E i \in 1..Len(wresp.days) :
          /\ wresp.days[i].precip_prob = 69 /\ wresp.days[i].summary = "Cloudy"
          /\ wresp.days[i].temp_max = 32 /\ wresp.days[i].temp_min = 0
          /\ ~Measured(fc.temperature_2m_min, i)
          /\ wresp.days[i].advice = HotAdvice

\* C5: a successful response with n dates gives n days in date order, day i from
\* index i of each measurement array, with precip_prob 0 and temperature 0.0 where an
\* array is shorter; the call does not raise.
C5_Ragged ==
    wresp.status # 0 =>
        /\ wresp.forecast_called
        /\ wresp.status = 200
        /\ Len(wresp.days) = Len(fc.time)
        /\ \A i \in 1..Len(fc.time) :
              LET d == wresp.days[i]
              IN  /\ d.date = fc.time[i].day
                  /\ d.temp_max = IF i <= Len(fc.temperature_2m_max) THEN fc.temperature_2m_max[i].v ELSE 0
                  /\ d.temp_min = IF i <= Len(fc.temperature_2m_min) THEN fc.temperature_2m_min[i].v ELSE 0
                  /\ d.precip_prob = IF i <= Len(fc.precipitation_probability_max)
                                     THEN IntOfTenths(fc.precipitation_probability_max[i].v) ELSE 0

\* three dates with two probabilities and one max temperature: the third day defaults
C5_Witness ==
    /\ wresp.status = 200
    /\ Len(fc.time) = 3 /\ Len(fc.precipitation_probability_max) = 2 /\ Len(fc.temperature_2m_max) = 1
    /\ Len(wresp.days) = 3
    /\ wresp.days[3].precip_prob = 0 /\ wresp.days[3].temp_max = 0
    /\ wresp.days[2].precip_prob = 45 /\ wresp.days[1].precip_prob = 70

\* C6: for an existing trip and an authorized caller (a request that passed the gate
\* and reached the geocoder) the weather endpoint never ends
\* in a 5xx: without coordinates it answers 404 and the forecast provider is not
\* called; with coordinates it answers 200, with no days when the forecast call
\* failed or its payload could not be processed.
C6_Never5xx ==
    (wresp.status # 0 /\ wresp.geocoded) =>
        /\ wresp.status < 500
        /\ geo # "found" => (wresp.status = 404 /\ ~wresp.forecast_called)
        /\ geo = "found" => wresp.status = 200

\* the requests that wrote, and the one whose commit came last
Writers == {r \in DOMAIN reqs : reqs[r].seq > 0 /\ reqs[r].status = 201}

LaterWriter == CHOOSE r \in Writers : \A q \in Writers : reqs[q].seq <= reqs[r].seq

\* C10: when the concurrent upserts of one (trip, user) pair have all ended, the pair
\* has at most one row, and that row carries the role of the request whose commit
\* came last.
C10_PairStaysUnique ==
    (\A r \in DOMAIN reqs : reqs[r].pc = "done") =>
        /\ \A t \in TripIds, u \in Users : PairRows(members, t, u) <= 1
        /\ Writers # {} =>
              \A m \in MemberQuery(reqs[LaterWriter].trip_id, reqs[LaterWriter].user_id) :
                  m.role = reqs[LaterWriter].role
====
